---- MODULE Spec2Model ----
(***************************************************************************)
(* Model of the window helpers of the Frame desktop shell (createWindow,   *)
(* createViewInstance, createOverlayInstance, openExternal, urlExists,     *)
(* getTokenUrl, openBlockExplorer) and of the Dapps view component         *)
(* (app/tray/Account/Contacts/index.js).                                   *)
(*                                                                         *)
(* Each behaviour follows one invocation: one openBlockExplorer task from  *)
(* its call to its completion, one surface from its construction through   *)
(* the events it receives.  `opened` holds the shell.openExternal calls of *)
(* the invocation under observation.                                       *)
(*                                                                         *)
(* Strings are TLA+ strings; JavaScript values that may be undefined, null,*)
(* boolean, number, string or object are records [t, v] (see ToBoolean).   *)
(***************************************************************************)
EXTENDS Integers, Sequences, FiniteSets, TLC

VARIABLES
    opened,       \* shell.openExternal calls made by the current invocation
    gateArg,      \* argument of the current openExternal invocation
    surface,      \* the browsing surface built by the factory call
    factoryCall,  \* arguments of the factory call
    lastEvent,    \* outcome of the last event dispatched to the surface
    request,      \* argument of the openBlockExplorer invocation
    pc,           \* position of that invocation's task
    explorer,     \* local `explorer` of openBlockExplorer
    urls,         \* local `urls` of getTokenUrl
    fetched,      \* HEAD requests issued by the invocation
    probes,       \* state of the two urlExists calls
    settleOrder,  \* order in which the HEAD requests settled
    explorerUrl,  \* value delivered to `explorerUrl` in openBlockExplorer
    consoleLog,   \* number of errors written by console.log
    props,        \* props of the Dapps component
    rendered      \* element returned by Dapps.render

vars == <<opened, gateArg, surface, factoryCall, lastEvent, request, pc,
          explorer, urls, fetched, probes, settleOrder, explorerUrl,
          consoleLog, props, rendered>>

gateVars == <<gateArg>>
factoryVars == <<surface, factoryCall, lastEvent>>
explorerVars == <<request, pc, explorer, urls, fetched, probes, settleOrder,
                  explorerUrl, consoleLog>>
dappsVars == <<props, rendered>>

(***************************************************************************)
(* Bounds of the model.                                                    *)
(***************************************************************************)
\* longest path (in segments) appended to a URL handed to openExternal
MaxDepth == 2
\* most trailing slashes carried by a configured explorer URL
MaxSlashes == 3

(***************************************************************************)
(* JavaScript values.                                                      *)
(***************************************************************************)
Undefined == [t |-> "undefined", v |-> ""]
Null == [t |-> "null", v |-> ""]
Str(s) == [t |-> "string", v |-> s]
Bool(b) == [t |-> "boolean", v |-> IF b THEN "true" ELSE "false"]
Num(n) == [t |-> "number", v |-> n]

\* ToBoolean of the language: the falsy values are undefined, null, false,
\* the empty string, 0 and NaN.
ToBoolean(x) ==
    CASE x.t = "undefined" -> FALSE
      [] x.t = "null" -> FALSE
      [] x.t = "boolean" -> x.v = "true"
      [] x.t = "string" -> x.v # ""
      [] x.t = "number" -> x.v \notin {"0", "NaN"}
      [] OTHER -> TRUE

\* ${x} in a template literal
TemplateString(x) ==
    CASE x.t = "undefined" -> "undefined"
      [] x.t = "null" -> "null"
      [] OTHER -> x.v

\* a && b and a || b
And(a, b) == IF ToBoolean(a) THEN b ELSE a
Or(a, b) == IF ToBoolean(a) THEN a ELSE b

\* String.prototype.startsWith
startsWith(s, prefix) ==
    /\ Len(prefix) <= Len(s)
    /\ SubSeq(s, 1, Len(prefix)) = prefix

RECURSIVE Repeat(_, _)
Repeat(s, n) == IF n = 0 THEN "" ELSE s \o Repeat(s, n - 1)

(***************************************************************************)
(* External navigation gate.                                               *)
(***************************************************************************)
externalWhitelist ==
    << "https://frame.sh",
       "https://chrome.google.com/webstore/detail/frame-alpha/ldcoohedfbjoobcadoglnnmmfbdlmmhf",
       "https://addons.mozilla.org/en-US/firefox/addon/frame-extension",
       "https://github.com/floating/frame/issues/new",
       "https://github.com/floating/frame/blob/master/LICENSE",
       "https://github.com/floating/frame/blob/0.5/LICENSE",
       "https://shop.ledger.com/pages/ledger-nano-x?r=1fb484cde64f",
       "https://shop.trezor.io/?offer_id=10&aff_id=3270",
       "https://discord.gg/UH7NGqY",
       "https://frame.canny.io",
       "https://feedback.frame.sh",
       "https://wiki.trezor.io/Trezor_Bridge",
       "https://opensea.io" >>

isValidReleasePage(url) ==
    \/ startsWith(url, "https://github.com/floating/frame/releases/tag")
    \/ startsWith(url, "https://github.com/frame-labs/frame-canary/releases/tag")

\* the entry test without the '/' separator after the entry
isWhitelistedHostNoSeparator(url) ==
    \E i \in 1..Len(externalWhitelist) :
        startsWith(url, externalWhitelist[i])

isWhitelistedHost(url) ==
    \E i \in 1..Len(externalWhitelist) :
        \/ url = externalWhitelist[i]
        \/ startsWith(url, externalWhitelist[i] \o "/")

\* shell.openExternal(url): the call is recorded
shellOpenExternal(log, url) == Append(log, url)

\* URLs handed to openExternal
WhitelistSet == {externalWhitelist[i] : i \in 1..Len(externalWhitelist)}

GateBases ==
    WhitelistSet
      \cup {SubSeq(e, 1, Len(e) - 1) : e \in WhitelistSet}
      \cup {"https://github.com/floating/frame/releases/tag",
            "https://github.com/frame-labs/frame-canary/releases/tag",
            "https://github.com/floating/frame/releases",
            "https://github.com/floating/frame",
            "https://github.com/frame-labs/frame-canary/releases/ta",
            "https://github.com/evil/frame/releases/tag",
            "https://evil.example",
            "https://evil.example/?u=https://frame.sh",
            "http://frame.sh",
            "HTTPS://FRAME.SH",
            "frame.sh",
            ""}

GateSuffixes ==
    {Repeat("/v0.6.8", d) : d \in 0..MaxDepth}
      \cup {"/", ".evil.example", "@evil.example", "?q=1", "s", "#/x"}

GateUrls == {b \o s : b \in GateBases, s \in GateSuffixes}

GateArgs == {Undefined} \cup {Str(u) : u \in GateUrls}

\* openExternal(url = '')
openExternal(arg) ==
    LET url == IF arg = Undefined THEN "" ELSE arg.v
    IN  /\ gateArg' = arg
        /\ opened' = IF isWhitelistedHost(url) \/ isValidReleasePage(url)
                         THEN shellOpenExternal(<<>>, url)
                         ELSE <<>>
        /\ UNCHANGED <<factoryVars, explorerVars, dappsVars>>

(***************************************************************************)
(* Window and view factory.  Option objects are functions from property    *)
(* names to values; an absent property is outside the DOMAIN.              *)
(***************************************************************************)
EmptyObject == [k \in {} |-> FALSE]

\* {...a, ...b}: properties of b win; spreading undefined adds nothing
Spread(a, b) ==
    [k \in (DOMAIN a) \cup (DOMAIN b) |-> IF k \in DOMAIN b THEN b[k] ELSE a[k]]

\* ...x inside an object literal: undefined spreads to nothing
SpreadOf(x) == IF x = Undefined THEN EmptyObject ELSE x

\* a parameter with a default value: `p = d`
DefaultParam(arg, d) == IF arg = Undefined THEN d ELSE arg

\* { <own properties>, ...caller }: the caller's properties written last
ObjectLiteralCallerLast(caller, own) == Spread(own, SpreadOf(caller))

\* { ...caller, <own properties> } as written in the three factories
ObjectLiteral(caller, own) == Spread(SpreadOf(caller), own)

\* path.resolve(process.env.BUNDLE_LOCATION, 'bridge.js')
BridgePreload == "<BUNDLE_LOCATION>/bridge.js"
\* path.resolve('./main/windows/viewPreload.js')
ViewPreload == "<cwd>/main/windows/viewPreload.js"

\* (e) => e.preventDefault()
preventDefault(e) == [e EXCEPT !.defaultPrevented = TRUE]
\* () => ({ action: 'deny' })
windowOpenHandler(details) == [action |-> "deny"]

WindowHandlers ==
    [didFinishLoad |-> "logPid",
     willNavigate |-> "preventDefault",
     willAttachWebview |-> "preventDefault",
     windowOpen |-> "deny"]

ViewHandlers ==
    [willNavigate |-> "preventDefault",
     willAttachWebview |-> "preventDefault",
     windowOpen |-> "deny"]

\* new BrowserWindow({...}) of createWindow
WindowOptions(platform, opts, webPreferences) ==
    ObjectLiteral(opts,
        [frame |-> FALSE,
         acceptFirstMouse |-> TRUE,
         transparent |-> (platform = "darwin"),
         show |-> FALSE,
         skipTaskbar |-> (platform # "linux"),
         webPreferences |->
             ObjectLiteral(webPreferences,
                 [preload |-> BridgePreload,
                  backgroundThrottling |-> FALSE,
                  contextIsolation |-> TRUE,
                  webviewTag |-> FALSE,
                  sandbox |-> TRUE,
                  defaultEncoding |-> "utf-8",
                  nodeIntegration |-> FALSE,
                  scrollBounce |-> TRUE,
                  navigateOnDragDrop |-> FALSE,
                  disableBlinkFeatures |-> "Auxclick"])])

\* new BrowserView({...}) of createViewInstance
ViewOptions(ens, webPreferences) ==
    [webPreferences |->
        ObjectLiteral(webPreferences,
            [contextIsolation |-> TRUE,
             webviewTag |-> FALSE,
             sandbox |-> TRUE,
             defaultEncoding |-> "utf-8",
             nodeIntegration |-> FALSE,
             scrollBounce |-> FALSE,
             navigateOnDragDrop |-> FALSE,
             disableBlinkFeatures |-> "Auxclick",
             preload |-> ViewPreload,
             partition |-> "persist:" \o ens])]

\* new BrowserView({...}) of createOverlayInstance
OverlayOptions(webPreferences) ==
    [webPreferences |->
        ObjectLiteral(webPreferences,
            [contextIsolation |-> TRUE,
             webviewTag |-> FALSE,
             sandbox |-> TRUE,
             defaultEncoding |-> "utf-8",
             nodeIntegration |-> FALSE,
             scrollBounce |-> TRUE,
             navigateOnDragDrop |-> FALSE,
             disableBlinkFeatures |-> "Auxclick",
             preload |-> BridgePreload])]

\* Caller-supplied preferences: every subset of the properties below, each
\* carrying the value that would weaken the surface.
HostilePreferences ==
    [contextIsolation |-> FALSE,
     webviewTag |-> TRUE,
     sandbox |-> FALSE,
     nodeIntegration |-> TRUE,
     disableBlinkFeatures |-> "",
     devTools |-> TRUE]

Restrict(f, keys) == [k \in keys |-> f[k]]

CallerPreferences ==
    {Undefined} \cup
    {Restrict(HostilePreferences, ks) : ks \in SUBSET (DOMAIN HostilePreferences)}

\* opts of createWindow (opts may be undefined: it then spreads to nothing)
CallerOpts ==
    {Undefined,
     EmptyObject,
     [frame |-> TRUE, show |-> TRUE],
     [webPreferences |-> HostilePreferences],
     [width |-> 400, webPreferences |-> HostilePreferences],
     [show |-> TRUE, webPreferences |-> EmptyObject]}

Platforms == {"darwin", "linux", "win32"}

NoSurface == [kind |-> "none", options |-> EmptyObject, handlers |-> EmptyObject]
NoFactoryCall == [fn |-> "none"]
NoEvent == [kind |-> "none"]

createWindow(platform, name, opts, webPreferences) ==
    /\ surface = NoSurface
    /\ factoryCall' = [fn |-> "createWindow", platform |-> platform, name |-> name,
                       opts |-> opts, webPreferences |-> webPreferences]
    /\ surface' = [kind |-> "BrowserWindow",
                   options |-> WindowOptions(platform, opts,
                                   DefaultParam(webPreferences, EmptyObject)),
                   handlers |-> WindowHandlers]
    /\ lastEvent' = NoEvent
    /\ UNCHANGED <<opened, gateVars, explorerVars, dappsVars>>

createViewInstance(ens, webPreferences) ==
    /\ surface = NoSurface
    /\ factoryCall' = [fn |-> "createViewInstance", ens |-> ens,
                       webPreferences |-> webPreferences]
    /\ surface' = [kind |-> "BrowserView",
                   options |-> ViewOptions(DefaultParam(ens, Str("")).v,
                                   DefaultParam(webPreferences, EmptyObject)),
                   handlers |-> ViewHandlers]
    /\ lastEvent' = NoEvent
    /\ UNCHANGED <<opened, gateVars, explorerVars, dappsVars>>

createOverlayInstance(url, webPreferences) ==
    /\ surface = NoSurface
    /\ factoryCall' = [fn |-> "createOverlayInstance", url |-> url,
                       webPreferences |-> webPreferences]
    /\ surface' = [kind |-> "BrowserView",
                   options |-> OverlayOptions(
                                   DefaultParam(webPreferences, EmptyObject)),
                   handlers |-> ViewHandlers]
    /\ lastEvent' = NoEvent
    /\ UNCHANGED <<opened, gateVars, explorerVars, dappsVars>>

\* Events the platform delivers to the surface's webContents.  A listener
\* registered as (e) => e.preventDefault() marks the event; the window-open
\* handler's answer is what the platform acts on.
NavigationTargets == {"https://evil.example", "file:///etc/passwd", "https://frame.sh"}

Emit(channel, e) ==
    IF channel \in DOMAIN surface.handlers /\ surface.handlers[channel] = "preventDefault"
        THEN preventDefault(e)
        ELSE e

WillNavigate(url) ==
    /\ surface.kind # "none"
    /\ lastEvent' = [kind |-> "will-navigate",
                     event |-> Emit("willNavigate", [url |-> url, defaultPrevented |-> FALSE])]
    /\ UNCHANGED <<opened, surface, factoryCall, gateVars, explorerVars, dappsVars>>

WillAttachWebview(url) ==
    /\ surface.kind # "none"
    /\ lastEvent' = [kind |-> "will-attach-webview",
                     event |-> Emit("willAttachWebview", [url |-> url, defaultPrevented |-> FALSE])]
    /\ UNCHANGED <<opened, surface, factoryCall, gateVars, explorerVars, dappsVars>>

WindowOpen(url) ==
    /\ surface.kind # "none"
    /\ lastEvent' = [kind |-> "window-open",
                     event |-> [url |-> url,
                                answer |-> IF "windowOpen" \in DOMAIN surface.handlers
                                               THEN windowOpenHandler([url |-> url])
                                               ELSE [action |-> "allow"]]]
    /\ UNCHANGED <<opened, surface, factoryCall, gateVars, explorerVars, dappsVars>>

(***************************************************************************)
(* Block explorer resolution.                                              *)
(***************************************************************************)
\* The networks of the configuration store: explorers with 0..MaxSlashes
\* trailing slashes, explorers made of slashes only (the empty string
\* included), an allow-listed host, an explorer with inner slashes, and a
\* network that configures no explorer.
PlainIds == 0..MaxSlashes
SlashIds == {100 + k : k \in 0..MaxSlashes}
ChainIds == PlainIds \cup SlashIds \cup {200, 201, 202}

mainNetworks ==
    [ethereum |->
        [id \in ChainIds |->
            CASE id \in PlainIds -> [explorer |-> Str("https://ex.com" \o Repeat("/", id))]
              [] id \in SlashIds -> [explorer |-> Str(Repeat("/", id - 100))]
              [] id = 200 -> [explorer |-> Str("https://opensea.io/")]
              [] id = 201 -> [explorer |-> Str("https://ex.com//a/")]
              [] OTHER -> [name |-> Str("No explorer")]]]

Chains ==
    {[type |-> "ethereum", id |-> id] : id \in ChainIds}
      \cup {[type |-> "cosmos", id |-> 0]}

\* store('main.networks', chain.type, chain.id, 'explorer'): undefined when
\* any step of the path is missing
store(chainType, chainId) ==
    IF /\ chainType \in DOMAIN mainNetworks
       /\ chainId \in DOMAIN mainNetworks[chainType]
       /\ "explorer" \in DOMAIN mainNetworks[chainType][chainId]
        THEN mainNetworks[chainType][chainId].explorer
        ELSE Undefined

\* s.replace(/\/$/, ''): at most one trailing slash removed
StripOneTrailingSlash(s) ==
    IF Len(s) > 0 /\ SubSeq(s, Len(s), Len(s)) = "/"
        THEN SubSeq(s, 1, Len(s) - 1)
        ELSE s

\* s.replace(/\/+$/, '')
RECURSIVE StripTrailingSlashes(_)
StripTrailingSlashes(s) ==
    IF Len(s) > 0 /\ SubSeq(s, Len(s), Len(s)) = "/"
        THEN StripTrailingSlashes(SubSeq(s, 1, Len(s) - 1))
        ELSE s

Fields == {Undefined, Str("")}
Hashes == Fields \cup {Str("0xh")}
Addresses == Fields \cup {Str("0xabc")}
TokenIds == Fields \cup {Str("7")}
RequestTypes == {"tx", "address", "token", "block"}

Requests ==
    [chain : Chains, type : RequestTypes, hash : Hashes,
     address : Addresses, tokenId : TokenIds]

\* what a HEAD request can settle with: a response, or an exception
Responses ==
    {[error |-> FALSE, redirected |-> r, ok |-> o] : r \in BOOLEAN, o \in BOOLEAN}
      \cup {[error |-> TRUE, redirected |-> FALSE, ok |-> FALSE]}

NoResponse == [error |-> FALSE, redirected |-> FALSE, ok |-> FALSE]

\* urlExists with no try/catch: the exception of fetch rejects the promise
urlExistsUncaught(response) ==
    IF response.error
        THEN [status |-> "rejected", value |-> FALSE, logged |-> 0]
        ELSE [status |-> "fulfilled",
              value |-> (~response.redirected /\ response.ok), logged |-> 0]

\* urlExists, from the point where its fetch has settled
urlExists(response) ==
    IF response.error
        THEN [status |-> "fulfilled", value |-> FALSE, logged |-> 1]
        ELSE [status |-> "fulfilled",
              value |-> (~response.redirected /\ response.ok), logged |-> 0]

\* a join that settles with the first promise to fulfil
PromiseFirst(ps) ==
    IF \E i \in 1..Len(ps) : ps[i].state = "rejected" THEN "rejected"
    ELSE IF \E i \in 1..Len(ps) : ps[i].state = "fulfilled" THEN "fulfilled"
    ELSE "pending"

\* Promise.all: rejected as soon as one promise is, fulfilled once all are
PromiseAll(ps) ==
    IF \E i \in 1..Len(ps) : ps[i].state = "rejected" THEN "rejected"
    ELSE IF \A i \in 1..Len(ps) : ps[i].state = "fulfilled" THEN "fulfilled"
    ELSE "pending"

\* the index of the last true element
findLastIndex(list) ==
    IF \E i \in 1..Len(list) : list[i]
        THEN (CHOOSE i \in 1..Len(list) :
                 list[i] /\ \A j \in (i + 1)..Len(list) : ~list[j]) - 1
        ELSE -1

\* list.findIndex((exists) => exists), 0-based, -1 when none
findIndex(list) ==
    IF \E i \in 1..Len(list) : list[i]
        THEN (CHOOSE i \in 1..Len(list) :
                 list[i] /\ \A j \in 1..(i - 1) : ~list[j]) - 1
        ELSE -1

tokenPath(exp, address) == exp \o "/token/" \o address
nftPath(exp, address, tokenId) ==
    exp \o "/nft/" \o address \o "/" \o TemplateString(tokenId)

\* getTokenUrl with no early return for a missing tokenId
getTokenUrlAlwaysProbes(exp, address, tokenId) ==
    [returned |-> FALSE, value |-> "",
     urls |-> <<nftPath(exp, address, tokenId), tokenPath(exp, address)>>]

\* getTokenUrl up to its first suspension: either it has returned a value,
\* or it has called urlExists on both urls and awaits Promise.all
getTokenUrl(exp, address, tokenId) ==
    IF ~ToBoolean(tokenId)
        THEN [returned |-> TRUE, value |-> tokenPath(exp, address), urls |-> <<>>]
        ELSE [returned |-> FALSE, value |-> "",
              urls |-> <<nftPath(exp, address, tokenId), tokenPath(exp, address)>>]

\* the value getTokenUrl returns once Promise.all has fulfilled
getTokenUrlResult(exp, address, urlList, urlExistenceList) ==
    LET existingUrlIndex == findIndex(urlExistenceList)
    IN  IF existingUrlIndex >= 0
            THEN urlList[existingUrlIndex + 1]
            ELSE exp \o "/address/" \o address

urlFormatTypes == {"tx", "token", "address"}

\* urlFormats.tx and urlFormats.address
txFormat(exp, hash) == And(hash, Str(exp \o "/tx/" \o TemplateString(hash)))
addressFormat(exp, address) ==
    And(address, Str(exp \o "/address/" \o TemplateString(address)))

\* the argument without the fallback to the base url
finalUrlNoFallback(url, exp) == TemplateString(url)

\* explorerUrl || explorer
finalUrl(url, exp) == Or(url, Str(exp)).v

\* the resolved url sent through the allow-list gate
openResolvedGated(url) ==
    IF isWhitelistedHost(url) \/ isValidReleasePage(url)
        THEN shellOpenExternal(<<>>, url)
        ELSE <<>>

\* shell.openExternal(explorerUrl || explorer)
openResolved(url) == shellOpenExternal(<<>>, url)

NoProbes == <<>>
NoRequest == [chain |-> [type |-> "", id |-> 0], type |-> "", hash |-> Undefined,
              address |-> Undefined, tokenId |-> Undefined]

\* openBlockExplorer from its call to its first suspension (or its return)
openBlockExplorer(req) ==
    LET exp == StripTrailingSlashes(Or(store(req.chain.type, req.chain.id), Str("")).v)
        token == IF ToBoolean(req.address)
                     THEN getTokenUrl(exp, req.address.v, req.tokenId)
                     ELSE [returned |-> TRUE, value |-> "", urls |-> <<>>]
        probing == exp # "" /\ req.type = "token" /\ ~token.returned
    IN  /\ pc = "idle"
        /\ request' = req
        /\ explorer' = exp
        /\ settleOrder' = <<>>
        /\ consoleLog' = 0
        /\ urls' = IF probing THEN token.urls ELSE <<>>
        /\ fetched' = IF probing THEN token.urls ELSE <<>>
        /\ probes' = IF probing
                         THEN [i \in 1..Len(token.urls) |->
                                  [url |-> token.urls[i], state |-> "pending",
                                   response |-> NoResponse, exists |-> FALSE]]
                         ELSE NoProbes
        /\ IF exp = ""
             THEN /\ pc' = "done"
                  /\ explorerUrl' = Undefined
                  /\ opened' = <<>>
             ELSE IF req.type \notin urlFormatTypes
             THEN /\ pc' = "done"
                  /\ explorerUrl' = Str(exp)
                  /\ opened' = openResolved(finalUrl(Str(exp), exp))
             ELSE /\ opened' = <<>>
                  /\ pc' = IF probing THEN "awaitProbes" ELSE "awaitUrl"
                  /\ explorerUrl' =
                       CASE req.type = "tx" -> txFormat(exp, req.hash)
                         [] req.type = "address" -> addressFormat(exp, req.address)
                         [] OTHER ->
                              IF ~ToBoolean(req.address) THEN req.address
                              ELSE IF token.returned THEN Str(token.value)
                              ELSE Undefined
        /\ UNCHANGED <<gateVars, factoryVars, dappsVars>>

\* the network settles the HEAD request of probe i
FetchSettle(i, response) ==
    /\ i \in 1..Len(probes)
    /\ probes[i].state = "pending"
    /\ probes' = [probes EXCEPT ![i].state = "settled", ![i].response = response]
    /\ settleOrder' = Append(settleOrder, i)
    /\ UNCHANGED <<opened, request, pc, explorer, urls, fetched, explorerUrl,
                   consoleLog, gateVars, factoryVars, dappsVars>>

\* urlExists of probe i resumes after `await fetch(...)`
UrlExistsResume(i) ==
    /\ i \in 1..Len(probes)
    /\ probes[i].state = "settled"
    /\ LET r == urlExists(probes[i].response)
       IN  /\ probes' = [probes EXCEPT ![i].state = r.status, ![i].exists = r.value]
           /\ consoleLog' = consoleLog + r.logged
    /\ UNCHANGED <<opened, request, pc, explorer, urls, fetched, explorerUrl,
                   settleOrder, gateVars, factoryVars, dappsVars>>

\* getTokenUrl resumes after `await Promise.all(...)`
GetTokenUrlResume ==
    /\ pc = "awaitProbes"
    /\ PromiseAll(probes) # "pending"
    /\ IF PromiseAll(probes) = "rejected"
         THEN /\ pc' = "rejected"
              /\ UNCHANGED explorerUrl
         ELSE /\ pc' = "awaitUrl"
              /\ explorerUrl' =
                    Str(getTokenUrlResult(explorer, request.address.v, urls,
                                          [i \in 1..Len(probes) |-> probes[i].exists]))
    /\ UNCHANGED <<opened, request, explorer, urls, fetched, probes, settleOrder,
                   consoleLog, gateVars, factoryVars, dappsVars>>

\* openBlockExplorer resumes after `await urlFormats[type]()`
OpenBlockExplorerResume ==
    /\ pc = "awaitUrl"
    /\ pc' = "done"
    /\ opened' = openResolved(finalUrl(explorerUrl, explorer))
    /\ UNCHANGED <<request, explorer, urls, fetched, probes, settleOrder,
                   explorerUrl, consoleLog, gateVars, factoryVars, dappsVars>>

(***************************************************************************)
(* Dapps view component.                                                   *)
(***************************************************************************)
Obj(fields) == [t |-> "object", v |-> "", fields |-> fields]

\* obj.key: undefined when the object has no such property
Get(obj, key) ==
    IF obj.t = "object" /\ key \in DOMAIN obj.fields THEN obj.fields[key] ELSE Undefined

JsValues ==
    {Undefined, Null, Bool(TRUE), Bool(FALSE), Str(""), Str("x"), Num("0"), Num("1")}

ExpandedDatas ==
    {Undefined, Null, Obj(EmptyObject)}
      \cup {Obj([originId |-> x]) : x \in JsValues}
      \cup {Obj([originId |-> x, title |-> Str("t")]) : x \in {Undefined, Str("x")}}

PropsSet ==
    [expandedData : ExpandedDatas, expanded : JsValues, moduleId : {"m1", "m2"}]

NoProps == [expandedData |-> Undefined, expanded |-> Undefined, moduleId |-> ""]
NotRendered == [type |-> "none", props |-> NoProps]

\* render with the expanded flag tested before the origin id
renderExpandedFirst(p) ==
    LET expandedData == Or(p.expandedData, Obj(EmptyObject))
    IN  IF ToBoolean(p.expanded)
            THEN [type |-> "DappsExpanded", props |-> p]
            ELSE IF ToBoolean(Get(expandedData, "originId"))
                     THEN [type |-> "OriginExpanded", props |-> p]
                     ELSE [type |-> "DappsPreview", props |-> p]

\* Dapps.render
render(p) ==
    LET expandedData == Or(p.expandedData, Obj(EmptyObject))
    IN  IF ToBoolean(Get(expandedData, "originId"))
            THEN [type |-> "OriginExpanded", props |-> p]
            ELSE IF ToBoolean(p.expanded)
                     THEN [type |-> "DappsExpanded", props |-> p]
                     ELSE [type |-> "DappsPreview", props |-> p]

Render(p) ==
    /\ props' = p
    /\ rendered' = render(p)
    /\ UNCHANGED <<opened, gateVars, factoryVars, explorerVars>>

(***************************************************************************)
(* Specifications.                                                         *)
(***************************************************************************)
Init ==
    /\ opened = <<>>
    /\ gateArg = Undefined
    /\ surface = NoSurface
    /\ factoryCall = NoFactoryCall
    /\ lastEvent = NoEvent
    /\ request = NoRequest
    /\ pc = "idle"
    /\ explorer = ""
    /\ urls = <<>>
    /\ fetched = <<>>
    /\ probes = NoProbes
    /\ settleOrder = <<>>
    /\ explorerUrl = Undefined
    /\ consoleLog = 0
    /\ props = NoProps
    /\ rendered = NotRendered

NextGate == \E arg \in GateArgs : openExternal(arg)

NextFactory ==
    \/ \E platform \in Platforms, opts \in CallerOpts, wp \in CallerPreferences :
           createWindow(platform, "tray", opts, wp)
    \/ \E ens \in {Undefined, Str("frame.eth")}, wp \in CallerPreferences :
           createViewInstance(ens, wp)
    \/ \E wp \in CallerPreferences : createOverlayInstance(Undefined, wp)
    \/ \E url \in NavigationTargets : WillNavigate(url)
    \/ \E url \in NavigationTargets : WillAttachWebview(url)
    \/ \E url \in NavigationTargets : WindowOpen(url)

NextExplorer ==
    \/ \E req \in Requests : openBlockExplorer(req)
    \/ \E i \in 1..2, response \in Responses : FetchSettle(i, response)
    \/ \E i \in 1..2 : UrlExistsResume(i)
    \/ GetTokenUrlResume
    \/ OpenBlockExplorerResume

NextDapps == \E p \in PropsSet : Render(p)

SpecGate == Init /\ [][NextGate]_vars
SpecFactory == Init /\ [][NextFactory]_vars
SpecExplorer == Init /\ [][NextExplorer]_vars
SpecDapps == Init /\ [][NextDapps]_vars

(***************************************************************************)
(* Vocabulary of the properties, stated on strings and on the request      *)
(* rather than through the operators of the code.                          *)
(***************************************************************************)
HasPrefix(s, p) == \E n \in 0..Len(s) : SubSeq(s, 1, n) = p

AllSlashes(s) == \A i \in 1..Len(s) : SubSeq(s, i, i) = "/"

\* u is an allow-list entry, a child path of one, or a release-tag page
GateAllows(u) ==
    \/ \E e \in WhitelistSet : u = e \/ HasPrefix(u, e \o "/")
    \/ HasPrefix(u, "https://github.com/floating/frame/releases/tag")
    \/ HasPrefix(u, "https://github.com/frame-labs/frame-canary/releases/tag")

Configured == store(request.chain.type, request.chain.id)

\* the explorer is missing, empty, or empty once its trailing slashes go
ExplorerMissing == Configured = Undefined \/ AllSlashes(Configured.v)

\* the configured explorer without its trailing slashes: the prefix p with
\* configured = p followed by slashes only, p not ending in a slash
Base ==
    CHOOSE p \in {SubSeq(Configured.v, 1, n) : n \in 0..Len(Configured.v)} :
        /\ AllSlashes(SubSeq(Configured.v, Len(p) + 1, Len(Configured.v)))
        /\ (p = "" \/ SubSeq(p, Len(p), Len(p)) # "/")

Present(field) == field # Undefined /\ field.v # ""

Invoked == pc # "idle"
Probing == Len(probes) = 2
NftCandidate == Base \o "/nft/" \o request.address.v \o "/" \o request.tokenId.v
TokenCandidate == Base \o "/token/" \o request.address.v
AddressUrl == Base \o "/address/" \o request.address.v

\* the url a token request with a tokenId resolves to, given whether the
\* NFT path and the token path exist
Resolved(nftExists, tokenExists) ==
    IF nftExists THEN NftCandidate
    ELSE IF tokenExists THEN TokenCandidate
    ELSE AddressUrl

(***************************************************************************)
(* C1: openExternal(u) calls shell.openExternal with u exactly when u is   *)
(* an allow-list entry, starts with an entry followed by '/', or starts    *)
(* with one of the two release-tag page prefixes; otherwise no call is     *)
(* made.  An omitted argument is the empty string.                         *)
(***************************************************************************)
C1_GateOpensIffAllowed ==
    LET u == IF gateArg.t = "undefined" THEN "" ELSE gateArg.v
    IN  /\ GateAllows(u) => opened = <<u>>
        /\ ~GateAllows(u) => opened = <<>>

C1_Witness ==
    /\ gateArg = Str("https://frame.sh/v0.6.8")
    /\ opened = <<"https://frame.sh/v0.6.8">>

(***************************************************************************)
(* C2: every surface built by the three factories, whatever preferences    *)
(* and opts the caller passes, has contextIsolation on, webviewTag off,    *)
(* sandbox on, nodeIntegration off and Auxclick disabled, and has the      *)
(* three blocking handlers: navigation and webview attachment are          *)
(* prevented and a window-open request is answered 'deny'.                 *)
(***************************************************************************)
C2_SurfaceIsLockedDown ==
    surface.kind # "none" =>
        LET wp == surface.options.webPreferences
        IN  /\ wp.contextIsolation = TRUE
            /\ wp.webviewTag = FALSE
            /\ wp.sandbox = TRUE
            /\ wp.nodeIntegration = FALSE
            /\ wp.disableBlinkFeatures = "Auxclick"
            /\ {"willNavigate", "willAttachWebview", "windowOpen"}
                   \subseteq DOMAIN surface.handlers
            /\ lastEvent.kind \in {"will-navigate", "will-attach-webview"}
                   => lastEvent.event.defaultPrevented
            /\ lastEvent.kind = "window-open"
                   => lastEvent.event.answer.action = "deny"

C2_Witness ==
    /\ factoryCall.fn = "createWindow"
    /\ factoryCall.webPreferences = HostilePreferences
    /\ factoryCall.opts = [width |-> 400, webPreferences |-> HostilePreferences]
    /\ surface.kind = "BrowserWindow"
    /\ lastEvent.kind = "window-open"

(***************************************************************************)
(* C3: with a tokenId present, getTokenUrl returns the NFT path when only  *)
(* the NFT path exists, the token path when only the token path exists,    *)
(* the NFT path when both exist, and base/address/address when neither     *)
(* exists.                                                                 *)
(***************************************************************************)
C3_TokenUrlByExistence ==
    (Probing /\ pc \in {"awaitUrl", "done"}) =>
        LET nft == probes[1].exists
            tok == probes[2].exists
        IN  /\ nft /\ ~tok => explorerUrl = Str(NftCandidate)
            /\ ~nft /\ tok => explorerUrl = Str(TokenCandidate)
            /\ nft /\ tok => explorerUrl = Str(NftCandidate)
            /\ ~nft /\ ~tok => explorerUrl = Str(AddressUrl)

C3_Witness ==
    /\ pc = "awaitUrl"
    /\ Probing
    /\ probes[1].exists /\ probes[2].exists
    /\ explorerUrl = Str("https://ex.com/nft/0xabc/7")

(***************************************************************************)
(* C4 as stated: a token request with an address and no tokenId resolves   *)
(* to base/token/address with no probe; over any call, probes are issued   *)
(* only for a token request with an address and a tokenId, and for every   *)
(* such request exactly two probes are issued.                             *)
(***************************************************************************)
C4_ProbesExactlyWhenTokenId ==
    Invoked =>
        LET wanted == /\ request.type = "token"
                      /\ Present(request.address)
                      /\ Present(request.tokenId)
        IN  /\ ( /\ request.type = "token"
                 /\ Present(request.address)
                 /\ ~Present(request.tokenId)
                 /\ ~ExplorerMissing ) =>
                   /\ fetched = <<>>
                   /\ pc = "awaitUrl" => explorerUrl = Str(TokenCandidate)
                   /\ pc = "done" => opened = <<TokenCandidate>>
            /\ fetched # <<>> => wanted
            /\ wanted => Len(fetched) = 2

(***************************************************************************)
(* C4 amended: a token request with an address and no tokenId, on a        *)
(* non-empty explorer, opens base/token/address with no probe; probes are  *)
(* issued only for a token request with an address and a tokenId, and for  *)
(* such a request exactly two are issued (the NFT path, then the token     *)
(* path) when the configured explorer is non-empty, none when it is        *)
(* missing or empty.                                                       *)
(***************************************************************************)
C4_ProbesWhenTokenIdAndExplorer ==
    Invoked =>
        LET wanted == /\ request.type = "token"
                      /\ Present(request.address)
                      /\ Present(request.tokenId)
        IN  /\ fetched # <<>> => wanted
            /\ wanted /\ ~ExplorerMissing => fetched = <<NftCandidate, TokenCandidate>>
            /\ wanted /\ ExplorerMissing => fetched = <<>>
            /\ ( /\ request.type = "token"
                 /\ Present(request.address)
                 /\ ~Present(request.tokenId)
                 /\ ~ExplorerMissing ) =>
                   /\ fetched = <<>>
                   /\ pc = "awaitUrl" => explorerUrl = Str(TokenCandidate)
                   /\ pc = "done" => opened = <<TokenCandidate>>

C4_Witness ==
    /\ pc = "done"
    /\ request.type = "token"
    /\ Present(request.address)
    /\ request.tokenId = Undefined
    /\ fetched = <<>>
    /\ opened = <<"https://ex.com/token/0xabc">>

(***************************************************************************)
(* C5: when the configured explorer is missing, empty, or made of slashes  *)
(* only, openBlockExplorer opens nothing, probes nothing and returns, for  *)
(* every request type and every hash, address and tokenId.                 *)
(***************************************************************************)
C5_NoExplorerIsNoOp ==
    (Invoked /\ ExplorerMissing) =>
        /\ opened = <<>>
        /\ fetched = <<>>
        /\ pc = "done"

C5_Witness ==
    /\ pc = "done"
    /\ Configured = Str("//")
    /\ request.type = "token"
    /\ Present(request.address)
    /\ Present(request.tokenId)
    /\ opened = <<>>

(***************************************************************************)
(* C6: on a non-empty explorer, a tx request without hash, an address      *)
(* request without address and a token request without address (with or    *)
(* without tokenId) open exactly the base url, trailing slashes stripped.  *)
(***************************************************************************)
C6_MissingFieldOpensBase ==
    ( /\ pc = "done"
      /\ ~ExplorerMissing
      /\ \/ request.type = "tx" /\ ~Present(request.hash)
         \/ request.type = "address" /\ ~Present(request.address)
         \/ request.type = "token" /\ ~Present(request.address) ) =>
        opened = <<Base>>

C6_Witness ==
    /\ pc = "done"
    /\ Configured = Str("https://ex.com//")
    /\ request.type = "token"
    /\ request.address = Undefined
    /\ Present(request.tokenId)
    /\ opened = <<"https://ex.com">>

(***************************************************************************)
(* C7: a HEAD request that throws counts as 'does not exist': no promise   *)
(* is rejected, the task can always take its next step once both requests  *)
(* have settled, and once it is done exactly one url has been opened, the  *)
(* one resolved from the responses with a thrown request taken as          *)
(* non-existent.                                                           *)
(***************************************************************************)
C7_ProbeFailureIsNonExistence ==
    LET exists(i) == /\ ~probes[i].response.error
                     /\ ~probes[i].response.redirected
                     /\ probes[i].response.ok
    IN  /\ pc # "rejected"
        /\ \A i \in 1..Len(probes) :
              /\ probes[i].state # "rejected"
              /\ (probes[i].state = "fulfilled" /\ probes[i].response.error)
                     => ~probes[i].exists
        /\ (Probing /\ pc # "done" /\ \A i \in 1..2 : probes[i].state # "pending") =>
              ENABLED (\/ \E i \in 1..2 : UrlExistsResume(i)
                       \/ GetTokenUrlResume
                       \/ OpenBlockExplorerResume)
        /\ (Probing /\ pc = "awaitUrl") => explorerUrl = Str(Resolved(exists(1), exists(2)))
        /\ (Probing /\ pc = "done") => opened = <<Resolved(exists(1), exists(2))>>

C7_Witness ==
    /\ pc = "done"
    /\ Probing
    /\ probes[1].response.error
    /\ probes[2].response.error
    /\ consoleLog = 2
    /\ opened = <<"https://ex.com/address/0xabc">>

(***************************************************************************)
(* C8: on a non-empty explorer openBlockExplorer opens exactly one url,    *)
(* never more, and opens it whether or not the allow-list of openExternal  *)
(* would let it through; the url is base/tx/hash for a tx request with a   *)
(* hash and base/address/address for an address request with an address.   *)
(***************************************************************************)
C8_OneUngatedOpen ==
    /\ Len(opened) <= 1
    /\ (pc = "done" /\ ~ExplorerMissing) =>
          /\ Len(opened) = 1
          /\ (request.type = "tx" /\ Present(request.hash))
                => opened = <<Base \o "/tx/" \o request.hash.v>>
          /\ (request.type = "address" /\ Present(request.address))
                => opened = <<AddressUrl>>

C8_Witness ==
    /\ pc = "done"
    /\ request.type = "tx"
    /\ Configured = Str("https://ex.com///")
    /\ opened = <<"https://ex.com/tx/0xh">>
    /\ ~GateAllows(opened[1])

(***************************************************************************)
(* C9: Dapps.render returns the origin variant when expandedData carries   *)
(* a (truthy) originId, else the expanded variant when the expanded flag   *)
(* is set, else the preview variant; the element carries the props         *)
(* unchanged.                                                              *)
(***************************************************************************)
Falsy == {Undefined, Null, Bool(FALSE), Str(""), Num("0"), Num("NaN")}

C9_ExactlyOneVariant ==
    rendered.type # "none" =>
        LET carriesOrigin ==
                /\ props.expandedData.t = "object"
                /\ "originId" \in DOMAIN props.expandedData.fields
                /\ props.expandedData.fields.originId \notin Falsy
            expandedSet == props.expanded \notin Falsy
        IN  /\ rendered.props = props
            /\ carriesOrigin => rendered.type = "OriginExpanded"
            /\ ~carriesOrigin /\ expandedSet => rendered.type = "DappsExpanded"
            /\ ~carriesOrigin /\ ~expandedSet => rendered.type = "DappsPreview"

C9_Witness ==
    /\ props.expandedData = Obj([originId |-> Str("x")])
    /\ props.expanded = Bool(TRUE)
    /\ rendered.type = "OriginExpanded"

(***************************************************************************)
(* C10: both HEAD requests are issued before the task first suspends; a    *)
(* url is opened only when both urlExists calls have completed; and the    *)
(* url opened is determined by the two existence results, whatever the     *)
(* order in which the requests settled.                                    *)
(***************************************************************************)
C10_JoinBeforeOpen ==
    /\ Len(fetched) \in {0, 2}
    /\ pc = "awaitProbes" => Len(fetched) = 2 /\ Probing
    /\ (Probing /\ opened # <<>>) =>
          \A i \in 1..2 : probes[i].state = "fulfilled"
    /\ (Probing /\ \E i \in 1..2 : probes[i].state \in {"pending", "settled"}) =>
          opened = <<>> /\ pc = "awaitProbes"
    /\ (Probing /\ pc = "done") =>
          opened = <<Resolved(probes[1].exists, probes[2].exists)>>

C10_Witness ==
    /\ pc = "done"
    /\ Probing
    /\ settleOrder = <<2, 1>>
    /\ ~probes[1].exists
    /\ probes[2].exists
    /\ opened = <<"https://ex.com/token/0xabc">>

====
